---- MODULE Spec2Model ----
(***************************************************************************)
(* Measurement module of the NQRduck GUI: the controller's handlers        *)
(* (controller.py), the view's plot refresh and dialog (view.py) and the   *)
(* apodization dialog (signalprocessing_options.py), over the measurement  *)
(* model and the Measurement record they hold.                             *)
(*                                                                         *)
(* Python strings that are parsed or produced (edit texts, str(...)        *)
(* payloads) are sequences of one-character strings.  Complex samples are  *)
(* records [re, im] over the integers.                                     *)
(***************************************************************************)
EXTENDS Integers, Sequences, FiniteSets, TLC

\* ------------------------------------------------------------------ bounds
\* Longest measurement list explored.
MaxMeasurements == 2

\* Most measurements started (dialog shown) in a behaviour that counts them.
MaxShown == 2

\* --------------------------------------------------------------- constants
\* float(value) * 1e6: MHz to Hz.
HzPerMHz == 1000000

TIME_VIEW == "time"
FFT_VIEW == "fft"

None == [none |-> TRUE]

\* ------------------------------------------------------------ Python text
DigitChars == <<"0", "1", "2", "3", "4", "5", "6", "7", "8", "9">>

DigitVal(c) == (CHOOSE d \in 1..10 : DigitChars[d] = c) - 1

RECURSIVE PyInt(_)
\* int(s) for a string of decimal digits (leading zeros allowed).
PyInt(s) ==
  IF s = <<>> THEN 0
  ELSE PyInt(SubSeq(s, 1, Len(s) - 1)) * 10 + DigitVal(s[Len(s)])

RECURSIVE PyStrInt(_)
\* str(n) for a non-negative int.
PyStrInt(n) ==
  IF n < 10 THEN <<DigitChars[n + 1]>>
  ELSE PyStrInt(n \div 10) \o <<DigitChars[(n % 10) + 1]>>

RECURSIVE Pow10(_)
Pow10(k) == IF k = 0 THEN 1 ELSE 10 * Pow10(k - 1)

DotPos(s) ==
  IF \E i \in 1..Len(s) : s[i] = "."
  THEN CHOOSE i \in 1..Len(s) : s[i] = "."
  ELSE Len(s) + 1

\* float(s) * 1e6 for a decimal text with at most six fraction digits; the
\* result is a whole number of Hz, held as an integer.
PyFloatTimes1e6(s) ==
  LET p == DotPos(s)
      ip == SubSeq(s, 1, p - 1)
      fp == SubSeq(s, p + 1, Len(s))
  IN PyInt(ip) * HzPerMHz + PyInt(fp) * Pow10(6 - Len(fp))

\* str(x) for a float holding a whole number below 1e16: "<digits>.0".
PyStrFloat(x) == PyStrInt(x) \o <<".", "0">>

\* ------------------------------------------------------------ host signals
StrPayload(s) == [str |-> s]
ListPayload(l) == [list |-> l]
NonePayload == [nonePayload |-> TRUE]
NeverEmitted == [never |-> TRUE]

\* One nqrduck_signal.emit(key, payload).
Sig(key, payload) == [key |-> key, payload |-> payload]

\* --------------------------------------------------------- complex samples
Cx(re, im) == [re |-> re, im |-> im]

CAdd(a, b) == Cx(a.re + b.re, a.im + b.im)

\* z * (-i)^e
RotMinusI(z, e) ==
  CASE e % 4 = 0 -> z
    [] e % 4 = 1 -> Cx(z.im, 0 - z.re)
    [] e % 4 = 2 -> Cx(0 - z.re, 0 - z.im)
    [] e % 4 = 3 -> Cx(0 - z.im, z.re)

RECURSIVE CSum(_, _)
CSum(f, n) == IF n = 0 THEN Cx(0, 0) ELSE CAdd(CSum(f, n - 1), f[n])

\* Discrete Fourier transform of N samples, N in {1, 2, 4}, where every
\* twiddle factor exp(-2 pi i n k / N) is a power of -i.
DFT(y) ==
  LET N == Len(y)
  IN [k \in 1..N |->
        CSum([n \in 1..N |-> RotMinusI(y[n], (4 \div N) * (n - 1) * (k - 1))], N)]

\* Zero frequency moved to the centre.
FFTShift(s) ==
  LET N == Len(s)
  IN [j \in 1..N |-> s[((j - 1 + (N - (N \div 2))) % N) + 1]]

\* Frequency axis in bins of 1 / (N * dwell time), already shifted.
FreqBins(N) == [j \in 1..N |-> (j - 1) - (N \div 2)]

\* Forward transform of a time-domain signal: (fdx, fdy).
get_fft(tdx, tdy) == [x |-> FreqBins(Len(tdx)), y |-> FFTShift(DFT(tdy))]

\* Measurement(tdx, tdy): the constructor derives the frequency domain.
Measurement(tdx, tdy) ==
  [tdx |-> tdx, tdy |-> tdy,
   fdx |-> get_fft(tdx, tdy).x, fdy |-> get_fft(tdx, tdy).y]

\* Measurement.to_json: complex samples become [real, imag] pairs.
to_json(m) ==
  [kind |-> "json",
   tdx |-> m.tdx,
   tdy |-> [i \in 1..Len(m.tdy) |-> <<m.tdy[i].re, m.tdy[i].im>>]]

\* Measurement.from_json: pairs become complex samples again, and the
\* constructor recomputes the frequency domain.
from_json(j) ==
  Measurement(j.tdx, [i \in 1..Len(j.tdy) |-> Cx(j.tdy[i][1], j.tdy[i][2])])

\* MeasurementModel.add_measurement
add_measurement(ms, m) == Append(ms, m)

\* ------------------------------------------------------------------ inputs
\* Texts the frequency edit reports as valid (MHz, 20.0 .. 1000.0).
FreqTexts == {<<"2", "0">>, <<"1", "0", "0", ".", "5">>}

\* Texts the averages edit reports as valid.
AvgTexts == {<<"1">>, <<"0", "1", "6">>}

\* Texts an edit reports as not valid.
InvalidTexts == {<<"5">>}

\* Measurements the spectrometer backend delivers.
BackendMeasurements ==
  { Measurement(<<0, 1>>, <<Cx(1, 0), Cx(0, 1)>>),
    Measurement(<<0, 1, 2, 3>>, <<Cx(4, 0), Cx(0, 2), Cx(-1, 0), Cx(0, 0)>>) }

ErrorTexts == {"timeout"}

SpectrometerNames == {"LimeNQR"}

\* Files on disk, and the one the save dialog is pointed at.
FileNames == {"a.mea", "missing.mea", "notes.txt", "other.json"}
SaveNames == {"a.mea"}

Absent == [kind |-> "absent"]
Garbage == [kind |-> "garbage"]
\* Well-formed JSON that lacks the measurement's keys.
ForeignJson == [kind |-> "json"]

SignalKeys ==
  {"measurement_data", "measurement_error", "failure_set_frequency",
   "failure_set_averages", "active_spectrometer_changed", "set_frequency"}

SignalValues(key) ==
  CASE key = "measurement_data" -> BackendMeasurements
    [] key = "measurement_error" -> ErrorTexts
    [] key = "failure_set_frequency" -> FreqTexts
    [] key = "failure_set_averages" -> AvgTexts
    [] key = "active_spectrometer_changed" -> SpectrometerNames
    [] OTHER -> {<<"2", "0">>}

\* Window functions offered by the apodization dialog.
ApodizationFunctions == {"FID", "Gaussian", "Custom"}

\* ------------------------------------------------------------------- state
VARIABLES
  frequency_valid,        \* model.frequency_valid
  averages_valid,         \* model.averages_valid
  measurement_frequency,  \* model.measurement_frequency
  averages,               \* model.averages
  view_mode,              \* model.view_mode
  measurements,           \* model.measurements
  displayed_measurement,  \* model.displayed_measurement
  buttonStartEnabled,     \* view._ui_form.buttonStart.isEnabled()
  dialogVisible,          \* view.measurement_dialog.isVisible()
  frequencyEditFailed,    \* frequencyEdit carries the red failure border
  averagesEditFailed,     \* averagesEdit carries the red failure border
  spectrometerLabel,      \* view._ui_form.spectrometerLabel text
  plot,                   \* what the plotter canvas shows
  files,                  \* file name -> content
  pc,                     \* position inside start_measurement
  out,                    \* host signals emitted by the last step, in order
  lastFreqPayload,        \* payload of the latest 'set_frequency' emitted
  lastAvgPayload,         \* payload of the latest 'set_averages' emitted
  lastOp,                 \* the handler (and branch) that ran last
  savedFrom,              \* file name -> the measurement last saved to it
  outstanding,            \* a measurement was started and not yet answered
  dialogShown,            \* how often start_measurement has shown the dialog
  backendAdded,           \* how many backend measurements were added to the list
  counting                \* whether this behaviour keeps the two counts above

vars ==
  <<frequency_valid, averages_valid, measurement_frequency, averages,
    view_mode, measurements, displayed_measurement, buttonStartEnabled,
    dialogVisible, frequencyEditFailed, averagesEditFailed, spectrometerLabel,
    plot, files, pc, out, lastFreqPayload, lastAvgPayload, lastOp, savedFrom,
    outstanding, dialogShown, backendAdded, counting>>

counts == <<dialogShown, backendAdded, counting>>

modelParams == <<frequency_valid, averages_valid, measurement_frequency, averages>>
modelData == <<measurements, displayed_measurement>>
widgets == <<frequencyEditFailed, averagesEditFailed, spectrometerLabel>>
payloads == <<lastFreqPayload, lastAvgPayload>>
disk == <<files, savedFrom>>

\* History record of the handler branch that ran last, with its file argument.
Op(name, arg) == [name |-> name, arg |-> arg]

\* Faulty variant: the time-domain samples are drawn in either view.
update_displayed_measurement_time_only(vm, dm) ==
  IF dm = None
  THEN [title |-> vm, x |-> <<>>, real |-> <<>>, imag |-> <<>>, mag2 |-> <<>>]
  ELSE [title |-> vm, x |-> dm.tdx,
        real |-> [i \in 1..Len(dm.tdy) |-> dm.tdy[i].re],
        imag |-> [i \in 1..Len(dm.tdy) |-> dm.tdy[i].im],
        mag2 |-> [i \in 1..Len(dm.tdy) |->
                    dm.tdy[i].re * dm.tdy[i].re + dm.tdy[i].im * dm.tdy[i].im]]

\* -------------------------------------------------------------------- view
\* MeasurementView.update_displayed_measurement: the axes are cleared and
\* retitled for the view mode, then the displayed measurement's samples of
\* that domain are drawn (real, imaginary, magnitude; the magnitude is kept
\* squared).  With no measurement the AttributeError leaves the axes empty.
update_displayed_measurement(vm, dm) ==
  IF dm = None
  THEN [title |-> vm, x |-> <<>>, real |-> <<>>, imag |-> <<>>, mag2 |-> <<>>]
  ELSE LET x == IF vm = FFT_VIEW THEN dm.fdx ELSE dm.tdx
           y == IF vm = FFT_VIEW THEN dm.fdy ELSE dm.tdy
       IN [title |-> vm, x |-> x,
           real |-> [i \in 1..Len(y) |-> y[i].re],
           imag |-> [i \in 1..Len(y) |-> y[i].im],
           mag2 |-> [i \in 1..Len(y) |-> y[i].re * y[i].re + y[i].im * y[i].im]]

\* MeasurementView.init_plotter: empty time-domain axes.
init_plotter == [title |-> TIME_VIEW, x |-> <<>>, real |-> <<>>, imag |-> <<>>, mag2 |-> <<>>]

\* MeasurementModel.__init__
ModelInit ==
  /\ frequency_valid = FALSE
  /\ averages_valid = FALSE
  /\ measurement_frequency = 100
  /\ averages = 1
  /\ view_mode = TIME_VIEW
  /\ measurements = <<>>
  /\ displayed_measurement = None

\* MeasurementView.__init__ and MeasurementDialog.__init__
ViewInit ==
  /\ buttonStartEnabled = FALSE
  /\ dialogVisible = FALSE
  /\ frequencyEditFailed = FALSE
  /\ averagesEditFailed = FALSE
  /\ spectrometerLabel = ""
  /\ plot = init_plotter

Constructed ==
  /\ ModelInit
  /\ ViewInit
  /\ files = [f \in FileNames |->
                CASE f = "notes.txt" -> Garbage
                  [] f = "other.json" -> ForeignJson
                  [] OTHER -> Absent]
  /\ pc = "idle"
  /\ out = <<>>
  /\ lastFreqPayload = NeverEmitted
  /\ lastAvgPayload = NeverEmitted
  /\ lastOp = Op("init", "")
  /\ savedFrom = [f \in FileNames |-> None]
  /\ outstanding = FALSE
  /\ dialogShown = 0
  /\ backendAdded = 0

\* The counts are history only. Init leaves them at rest, so that the number
\* of measurements started is not capped; InitCounted switches them on.
Init == Constructed /\ counting = FALSE

InitCounted == Constructed /\ counting = TRUE

\* Handlers may run when no start_measurement is in progress or while it
\* yields to the event loop in QApplication.processEvents().
AtEventLoop == pc \in {"idle", "processEvents"}

\* Handlers behind the main window's widgets: the measurement dialog is modal
\* (MeasurementDialog.__init__, setModal(True)), so while it is visible the
\* main window receives no input.
AtUserInput == AtEventLoop /\ ~dialogVisible

\* -------------------------------------------------------------- controller
\* Faulty variant: the button follows either validator alone.
toggle_start_button_either(fv, av) == fv \/ av

\* MeasurementController.toggle_start_button: the state given to
\* buttonStart.setEnabled.
toggle_start_button(fv, av) == fv /\ av

\* Faulty variant: the frequency is sent to the host whatever the validator says.
set_frequency_signals_always(state, stored) ==
  <<Sig("set_frequency", StrPayload(PyStrFloat(stored)))>>

\* The signals set_frequency emits, given the validator state and the value
\* just stored in the model.
set_frequency_signals(state, stored) ==
  IF state THEN <<Sig("set_frequency", StrPayload(PyStrFloat(stored)))>> ELSE <<>>

\* Faulty variant: the edit's text is sent instead of the stored number.
set_averages_signals_raw(state, value, stored) ==
  IF state THEN <<Sig("set_averages", StrPayload(value))>> ELSE <<>>

\* The signals set_averages emits, given the validator state, the edit text
\* and the value just stored in the model.
set_averages_signals(state, value, stored) ==
  IF state THEN <<Sig("set_averages", StrPayload(PyStrInt(stored)))>> ELSE <<>>

\* Payload of the last signal with the given key in a step's output, or the
\* previous one when the step emitted none.
LatestPayload(key, sigs, previous) ==
  IF \E i \in 1..Len(sigs) : sigs[i].key = key
  THEN sigs[CHOOSE i \in 1..Len(sigs) :
              /\ sigs[i].key = key
              /\ \A j \in (i + 1)..Len(sigs) : sigs[j].key # key].payload
  ELSE previous

\* MeasurementController.set_frequency
set_frequency(state, value) ==
  /\ AtUserInput
  /\ frequency_valid' = state
  /\ measurement_frequency' =
       IF state THEN PyFloatTimes1e6(value) ELSE measurement_frequency
  /\ out' = set_frequency_signals(state, measurement_frequency')
  /\ lastFreqPayload' = LatestPayload("set_frequency", out', lastFreqPayload)
  /\ buttonStartEnabled' = toggle_start_button(frequency_valid', averages_valid)
  /\ lastOp' = Op(IF state THEN "set_frequency_valid" ELSE "set_frequency_invalid", "")
  /\ UNCHANGED <<averages_valid, averages, view_mode, modelData, dialogVisible,
                 widgets, plot, disk, pc, lastAvgPayload, outstanding, counts>>

\* MeasurementController.set_averages
set_averages(state, value) ==
  /\ AtUserInput
  /\ averages_valid' = state
  /\ averages' = IF state THEN PyInt(value) ELSE averages
  /\ out' = set_averages_signals(state, value, averages')
  /\ lastAvgPayload' = LatestPayload("set_averages", out', lastAvgPayload)
  /\ buttonStartEnabled' = toggle_start_button(frequency_valid, averages_valid')
  /\ lastOp' = Op(IF state THEN "set_averages_valid" ELSE "set_averages_invalid", "")
  /\ UNCHANGED <<frequency_valid, measurement_frequency, view_mode, modelData,
                 dialogVisible, widgets, plot, disk, pc, lastFreqPayload,
                 outstanding, counts>>

\* MeasurementController.change_view_mode; the model's view_mode setter
\* notifies the view, which redraws.
change_view_mode ==
  /\ AtUserInput
  /\ view_mode' = IF view_mode = FFT_VIEW THEN TIME_VIEW ELSE FFT_VIEW
  /\ plot' = update_displayed_measurement(view_mode', displayed_measurement)
  /\ out' = <<>>
  /\ lastOp' = Op("change_view_mode", "")
  /\ UNCHANGED <<modelParams, modelData, buttonStartEnabled, dialogVisible,
                 widgets, disk, pc, payloads, outstanding, counts>>

\* start_measurement, first statement: measurement_dialog.show().  Reached
\* from the start button's clicked signal, which a disabled button does not
\* send.
start_measurement_show ==
  /\ pc = "idle"
  /\ ~dialogVisible
  /\ buttonStartEnabled
  /\ dialogVisible' = TRUE
  /\ outstanding' = TRUE
  /\ counting => dialogShown < MaxShown
  /\ dialogShown' = IF counting THEN dialogShown + 1 ELSE dialogShown
  /\ UNCHANGED <<backendAdded, counting>>
  /\ pc' = "shown"
  /\ out' = <<>>
  /\ lastOp' = Op("start_measurement_show", "")
  /\ UNCHANGED <<modelParams, view_mode, modelData, buttonStartEnabled, widgets,
                 plot, disk, payloads>>

\* Faulty variant: the averages are sent before the frequency.
start_measurement_signals_swapped(freq, avg) ==
  << Sig("set_averages", StrPayload(PyStrInt(avg))),
     Sig("set_frequency", StrPayload(PyStrFloat(freq))) >>

\* The parameter signals start_measurement sends again, in order.
start_measurement_signals(freq, avg) ==
  << Sig("set_frequency", StrPayload(PyStrFloat(freq))),
     Sig("set_averages", StrPayload(PyStrInt(avg))) >>

\* start_measurement, the two parameter emits; QApplication.processEvents()
\* follows.
start_measurement_set ==
  /\ pc = "shown"
  /\ out' = start_measurement_signals(measurement_frequency, averages)
  /\ lastFreqPayload' = LatestPayload("set_frequency", out', lastFreqPayload)
  /\ lastAvgPayload' = LatestPayload("set_averages", out', lastAvgPayload)
  /\ pc' = "processEvents"
  /\ lastOp' = Op("start_measurement_set", "")
  /\ UNCHANGED <<modelParams, view_mode, modelData, buttonStartEnabled,
                 dialogVisible, widgets, plot, disk, outstanding, counts>>

\* start_measurement, last statement: emit("start_measurement", None).
start_measurement_emit ==
  /\ pc = "processEvents"
  /\ out' = <<Sig("start_measurement", NonePayload)>>
  /\ pc' = "idle"
  /\ lastOp' = Op("start_measurement_emit", "")
  /\ UNCHANGED <<modelParams, view_mode, modelData, buttonStartEnabled,
                 dialogVisible, widgets, plot, disk, payloads, outstanding, counts>>

\* Faulty variant: a result is taken whether or not the dialog is visible.
signal_branch_unguarded(key, visible, textMatches) ==
  CASE key = "measurement_data" -> "data"
    [] key = "measurement_error" -> "error"
    [] key = "failure_set_frequency" /\ textMatches -> "failure_set_frequency"
    [] key = "failure_set_averages" /\ textMatches -> "failure_set_averages"
    [] key = "active_spectrometer_changed" -> "active_spectrometer_changed"
    [] OTHER -> "ignored"

\* The branch of process_signals' if/elif chain a signal takes; textMatches
\* is whether the edit's current text equals the signal's value. No branch
\* takes a result that comes while the dialog is hidden ("dropped"), nor a
\* signal that concerns none of them ("ignored").
signal_branch(key, visible, textMatches) ==
  CASE key = "measurement_data" /\ visible -> "data"
    [] key = "measurement_error" /\ visible -> "error"
    [] key = "failure_set_frequency" /\ textMatches -> "failure_set_frequency"
    [] key = "failure_set_averages" /\ textMatches -> "failure_set_averages"
    [] key = "active_spectrometer_changed" -> "active_spectrometer_changed"
    [] key \in {"measurement_data", "measurement_error"} -> "dropped"
    [] OTHER -> "ignored"

\* Faulty variant: the received measurement is listed but not displayed.
displayed_after_data_stale(old, value) == old

\* The displayed measurement after the 'measurement_data' branch.
displayed_after_data(old, value) == value

\* Faulty variant: the error branch leaves the dialog up.
dialog_after_data_only(branch, visible) ==
  IF branch = "data" THEN FALSE ELSE visible

\* The dialog's visibility after a branch of process_signals:
\* measurement_dialog.hide() in the data and the error branch.
dialog_after(branch, visible) ==
  IF branch \in {"data", "error"} THEN FALSE ELSE visible

\* Faulty variant: the notification carries the bare error text.
error_notification_bare(value) == <<Sig("notification", ListPayload(<<value>>))>>

\* The signal the 'measurement_error' branch emits.
error_notification(value) == <<Sig("notification", ListPayload(<<"Error", value>>))>>

\* Whether the edit's text equals the signal's value is read only for the two
\* failure keys.
TextMatchOutcomes(key) ==
  IF key \in {"failure_set_frequency", "failure_set_averages"} THEN BOOLEAN ELSE {FALSE}

\* MeasurementController.process_signals
process_signals(key, value) ==
  /\ AtEventLoop
  /\ \E textMatches \in TextMatchOutcomes(key) :
       LET branch == signal_branch(key, dialogVisible, textMatches) IN
       /\ IF branch = "data"
          THEN /\ Len(measurements) < MaxMeasurements
               /\ displayed_measurement' =
                    displayed_after_data(displayed_measurement, value)
               /\ measurements' = add_measurement(measurements, value)
               /\ plot' = update_displayed_measurement(view_mode, displayed_measurement')
          ELSE UNCHANGED <<modelData, plot>>
       /\ dialogVisible' = dialog_after(branch, dialogVisible)
       /\ out' = IF branch = "error" THEN error_notification(value) ELSE <<>>
       /\ frequencyEditFailed' =
            IF branch = "failure_set_frequency" THEN TRUE ELSE frequencyEditFailed
       /\ averagesEditFailed' =
            IF branch = "failure_set_averages" THEN TRUE ELSE averagesEditFailed
       /\ spectrometerLabel' =
            IF branch = "active_spectrometer_changed" THEN value ELSE spectrometerLabel
       /\ lastOp' = Op("process_signals", branch)
       /\ backendAdded' =
            IF counting /\ branch = "data" THEN backendAdded + 1 ELSE backendAdded
  /\ UNCHANGED <<dialogShown, counting>>
  /\ outstanding' =
       IF key \in {"measurement_data", "measurement_error"} THEN FALSE ELSE outstanding
  /\ UNCHANGED <<modelParams, view_mode, buttonStartEnabled, disk, pc, payloads>>

\* The measurement save_measurement writes: measurements[-1].
saved_measurement(ms) == ms[Len(ms)]

\* MeasurementController.save_measurement
save_measurement(file_name) ==
  /\ AtUserInput
  /\ IF measurements = <<>>
     THEN /\ UNCHANGED disk
          /\ lastOp' = Op("save_measurement_empty", file_name)
     ELSE /\ files' = [files EXCEPT ![file_name] = to_json(saved_measurement(measurements))]
          /\ savedFrom' = [savedFrom EXCEPT ![file_name] = measurements[Len(measurements)]]
          /\ lastOp' = Op("save_measurement", file_name)
  /\ out' = <<>>
  /\ UNCHANGED <<modelParams, view_mode, modelData, buttonStartEnabled,
                 dialogVisible, widgets, plot, pc, payloads, outstanding, counts>>

\* What opening and decoding the file yields in load_measurement.
load_outcome(content) ==
  CASE content = Absent -> "FileNotFoundError"
    [] content = Garbage -> "JSONDecodeError"
    [] content = ForeignJson -> "KeyError"
    [] OTHER -> "ok"

\* Faulty variant: the loaded measurement is displayed but not listed.
loaded_model_unlisted(ms, old, m) == <<ms, m>>

\* The model after a successful load: (measurements, displayed_measurement).
loaded_model(ms, old, m) == <<add_measurement(ms, m), m>>

\* MeasurementController.load_measurement
load_measurement(file_name) ==
  /\ AtUserInput
  /\ LET outcome == load_outcome(files[file_name]) IN
       IF outcome = "ok"
       THEN /\ Len(measurements) < MaxMeasurements
            /\ measurements' =
                 loaded_model(measurements, displayed_measurement,
                              from_json(files[file_name]))[1]
            /\ displayed_measurement' =
                 loaded_model(measurements, displayed_measurement,
                              from_json(files[file_name]))[2]
            /\ plot' = update_displayed_measurement(view_mode, displayed_measurement')
            /\ out' = <<>>
            /\ lastOp' = Op("load_measurement", file_name)
       ELSE /\ out' = <<Sig("notification",
                            ListPayload(<<"Error",
                              IF outcome = "FileNotFoundError"
                              THEN "File not found."
                              ELSE "File is not a valid measurement file.">>))>>
            /\ lastOp' = Op("load_measurement_" \o outcome, file_name)
            /\ UNCHANGED <<modelData, plot>>
  /\ UNCHANGED <<modelParams, view_mode, buttonStartEnabled, dialogVisible,
                 widgets, disk, pc, payloads, outstanding, counts>>

\* MeasurementController.show_apodization_dialog.  accepted is the result of
\* dialog.exec(), function the one selected in the dialog.  With a displayed
\* measurement the handler does not reach its assignments: a rejected dialog
\* leaves `function` unbound where it is logged, and an accepted one calls
\* dialog.apodization, which the Apodization dialog does not define.  Either
\* exception ends the handler with the model as it was.
show_apodization_dialog(accepted, function) ==
  /\ AtUserInput
  /\ IF displayed_measurement = None
     THEN /\ out' = <<Sig("notification",
                          ListPayload(<<"Error", "No measurement to apodize.">>))>>
          /\ lastOp' = Op("show_apodization_dialog_none", "")
     ELSE /\ out' = <<>>
          /\ lastOp' = Op(IF accepted THEN "show_apodization_dialog_AttributeError"
                          ELSE "show_apodization_dialog_UnboundLocalError", "")
  /\ UNCHANGED <<modelParams, view_mode, modelData, buttonStartEnabled,
                 dialogVisible, widgets, plot, disk, pc, payloads, outstanding, counts>>

Next ==
  \/ \E v \in FreqTexts : set_frequency(TRUE, v)
  \/ \E v \in InvalidTexts : set_frequency(FALSE, v)
  \/ \E v \in AvgTexts : set_averages(TRUE, v)
  \/ \E v \in InvalidTexts : set_averages(FALSE, v)
  \/ change_view_mode
  \/ start_measurement_show
  \/ start_measurement_set
  \/ start_measurement_emit
  \/ \E key \in SignalKeys : \E value \in SignalValues(key) : process_signals(key, value)
  \/ \E f \in SaveNames : save_measurement(f)
  \/ \E f \in FileNames : load_measurement(f)
  \/ \E function \in ApodizationFunctions : show_apodization_dialog(TRUE, function)
  \/ show_apodization_dialog(FALSE, "")

Spec == Init /\ [][Next]_vars

\* The same program, with the started and the added measurements counted.
SpecCounted == InitCounted /\ [][Next]_vars

\* ------------------------------------------------------------------ claims
Last(ms) == ms[Len(ms)]

FreqPayload(freq) == StrPayload(PyStrFloat(freq))
AvgPayload(avg) == StrPayload(PyStrInt(avg))

\* Real and imaginary parts of a sequence of complex samples.
RealParts(y) == [i \in 1..Len(y) |-> y[i].re]
ImagParts(y) == [i \in 1..Len(y) |-> y[i].im]

RECURSIVE Pow2(_)
Pow2(k) == IF k = 0 THEN 1 ELSE 2 * Pow2(k - 1)

\* A window function evaluated at n samples spread evenly over the
\* measurement's time span (last time sample minus first), in units of its
\* smallest sample: a decaying exponential halving per sample, a bell centred
\* on the span, a user expression rising linearly.
Window(function, n) ==
  [k \in 1..n |->
     CASE function = "FID" -> Pow2(n - k)
       [] function = "Gaussian" -> k * (n + 1 - k)
       [] OTHER -> k + 1]

\* The measurement m apodized with a window function: amplitudes multiplied
\* sample by sample, frequency domain transformed again.
Apodized(m, function) ==
  LET w == Window(function, Len(m.tdy))
  IN Measurement(m.tdx,
                 [i \in 1..Len(m.tdy) |-> Cx(m.tdy[i].re * w[i], m.tdy[i].im * w[i])])

\* C3: when the apodization dialog is accepted with function w for a displayed
\* measurement m, the displayed measurement becomes m with its amplitudes
\* multiplied sample by sample by w over m's time span, re-transformed.
C3_ApodizationApplied ==
  [][\A w \in ApodizationFunctions :
       (show_apodization_dialog(TRUE, w) /\ displayed_measurement # None) =>
         displayed_measurement' = Apodized(displayed_measurement, w)]_vars

\* C4: the measurement dialog is visible exactly from start_measurement's
\* show(), which precedes the handler's signals, until the first
\* 'measurement_data' or 'measurement_error' signal has been processed; no
\* other signal key changes its visibility.
C4_DialogWhileOutstanding ==
  /\ [](/\ dialogVisible = outstanding
        /\ pc = "shown" => dialogVisible /\ out = <<>>)
  /\ [][/\ (~dialogVisible /\ dialogVisible') =>
             lastOp' = Op("start_measurement_show", "")
        /\ (dialogVisible /\ ~dialogVisible') =>
             lastOp' \in {Op("process_signals", "data"), Op("process_signals", "error")}
        /\ lastOp' \in {Op("process_signals", "data"), Op("process_signals", "error")} =>
             ~dialogVisible']_vars

\* The dialog is up, a frequency failure has just been processed, and it is
\* still up.
C4_Witness ==
  /\ dialogVisible
  /\ outstanding
  /\ lastOp = Op("process_signals", "failure_set_frequency")
  /\ frequencyEditFailed

\* C5: between events the start button is enabled if and only if both
\* validity flags of the model are set.
C5_StartButtonIffValid ==
  buttonStartEnabled <=> (frequency_valid /\ averages_valid)

\* Both parameters were accepted and the button came on.
C5_Witness ==
  /\ buttonStartEnabled
  /\ frequency_valid
  /\ averages_valid
  /\ lastOp.name \in {"set_frequency_valid", "set_averages_valid"}

\* C6: start_measurement sends 'set_frequency' with the model's frequency, then
\* 'set_averages' with the model's averages, and only then 'start_measurement';
\* when 'start_measurement' goes out the latest payloads of both are the
\* model's stored values.
C6_StartSignalOrder ==
  /\ [](/\ lastOp.name = "start_measurement_set" =>
             out = << Sig("set_frequency", FreqPayload(measurement_frequency)),
                      Sig("set_averages", AvgPayload(averages)) >>
        /\ lastOp.name = "start_measurement_emit" =>
             /\ out = <<Sig("start_measurement", NonePayload)>>
             /\ lastFreqPayload = FreqPayload(measurement_frequency)
             /\ lastAvgPayload = AvgPayload(averages))
  /\ [][/\ lastOp'.name = "start_measurement_emit" => pc = "processEvents"
        /\ (pc' = "processEvents" /\ pc # "processEvents") =>
             lastOp'.name = "start_measurement_set"]_vars

\* 'start_measurement' went out after the frequency was edited twice.
C6_Witness ==
  /\ lastOp.name = "start_measurement_emit"
  /\ measurement_frequency = 20 * HzPerMHz
  /\ lastFreqPayload = StrPayload(<<"2", "0", "0", "0", "0", "0", "0", "0", ".", "0">>)
  /\ lastAvgPayload = StrPayload(<<"1", "6">>)

\* C7: a valid frequency edit stores the value in Hz and emits exactly one
\* 'set_frequency' carrying the string of the stored value; a valid averages
\* edit stores int(value) and emits exactly one 'set_averages' carrying the
\* stored value; so the last payload emitted for each parameter is the model's
\* stored value.
C7_EditStoresAndEmits ==
  /\ [][/\ lastOp'.name = "set_frequency_valid" =>
             \A v \in FreqTexts :
               (set_frequency(TRUE, v) =>
                 /\ measurement_frequency' = PyFloatTimes1e6(v)
                 /\ out' = <<Sig("set_frequency", FreqPayload(measurement_frequency'))>>)
        /\ lastOp'.name = "set_averages_valid" =>
             \A v \in AvgTexts :
               (set_averages(TRUE, v) =>
                 /\ averages' = PyInt(v)
                 /\ out' = <<Sig("set_averages", AvgPayload(averages'))>>)]_vars
  /\ [](/\ lastFreqPayload # NeverEmitted =>
             lastFreqPayload = FreqPayload(measurement_frequency)
        /\ lastAvgPayload # NeverEmitted => lastAvgPayload = AvgPayload(averages)
        /\ measurement_frequency \in {100, 20000000, 100500000}
        /\ averages \in {1, 16})

\* The text "016" was accepted: 16 is stored and "16" was sent.
C7_Witness ==
  /\ lastOp.name = "set_averages_valid"
  /\ averages = 16
  /\ out = <<Sig("set_averages", StrPayload(<<"1", "6">>))>>
  /\ lastFreqPayload = StrPayload(<<"1", "0", "0", "5", "0", "0", "0", "0", "0", ".", "0">>)

\* Everything but the step's own record, the given validity flag and the
\* start button is left as it was.
FrameOfInvalidEdit ==
  UNCHANGED <<measurement_frequency, averages, view_mode, modelData, dialogVisible,
              widgets, plot, disk, pc, payloads, outstanding, counts>>

\* C8: an edit reported as not valid leaves the stored frequency (averages)
\* unchanged and emits no host signal; it only clears that parameter's
\* validity flag and disables the start button, and leaves the other
\* parameter's value and flag alone.
C8_InvalidEditFrame ==
  [][/\ lastOp'.name = "set_frequency_invalid" =>
         \A v \in InvalidTexts :
           (set_frequency(FALSE, v) =>
             /\ out' = <<>>
             /\ ~frequency_valid'
             /\ ~buttonStartEnabled'
             /\ averages_valid' = averages_valid
             /\ FrameOfInvalidEdit)
     /\ lastOp'.name = "set_averages_invalid" =>
         \A v \in InvalidTexts :
           (set_averages(FALSE, v) =>
             /\ out' = <<>>
             /\ ~averages_valid'
             /\ ~buttonStartEnabled'
             /\ frequency_valid' = frequency_valid
             /\ FrameOfInvalidEdit)]_vars

\* The frequency edit turned invalid after both parameters had been accepted.
C8_Witness ==
  /\ lastOp.name = "set_frequency_invalid"
  /\ ~frequency_valid
  /\ averages_valid
  /\ measurement_frequency = 100500000
  /\ lastFreqPayload = FreqPayload(100500000)
  /\ ~buttonStartEnabled

\* How often v occurs in the measurement list.
Occurrences(ms, v) == Cardinality({i \in 1..Len(ms) : ms[i] = v})

C10_ErrorReported ==
  [][\A e \in ErrorTexts :
       (dialogVisible /\ lastOp'.name = "process_signals"
          /\ process_signals("measurement_error", e)) =>
         /\ ~dialogVisible'
         /\ out' = <<Sig("notification", ListPayload(<<"Error", e>>))>>
         /\ UNCHANGED <<measurements, displayed_measurement>>]_vars

\* An error ended a measurement started while an earlier result was displayed.
C10_Witness ==
  /\ lastOp = Op("process_signals", "error")
  /\ out = <<Sig("notification", ListPayload(<<"Error", "timeout">>))>>
  /\ ~dialogVisible
  /\ displayed_measurement # None

\* C11: a backend result that arrives while the dialog is not visible is
\* dropped: process_signals takes neither the data nor the error branch, the
\* measurement list and the displayed measurement stay as they are and no
\* notification is emitted; so the number of backend measurements added to the
\* list never exceeds the number of times the dialog was shown.
C11_LateResultDropped ==
  /\ [](backendAdded <= dialogShown)
  /\ [][(lastOp'.name = "process_signals" /\ ~dialogVisible) =>
          /\ lastOp'.arg \notin {"data", "error"}
          /\ UNCHANGED <<measurements, displayed_measurement, dialogVisible>>
          /\ out' = <<>>
          /\ backendAdded' = backendAdded]_vars

\* The one measurement started was answered and its result listed, and a
\* second result for it has just been dropped.
C11_Witness ==
  /\ lastOp = Op("process_signals", "dropped")
  /\ counting
  /\ ~dialogVisible
  /\ dialogShown = 1
  /\ backendAdded = 1
  /\ Len(measurements) = 1

====
